---- MODULE Spec2Model ----
(***************************************************************************)
(* Model of majsoulrpa: the message channel client (DBClient) that decodes *)
(* captured frames, and the construction of HomePresentation, which        *)
(* settles the login chatter by consuming messages from that client.        *)
(*                                                                         *)
(* Bytes are naturals below 128.  A message name (a UTF-8 string on the     *)
(* wire) is carried as one byte, the code of the name in NameTable; the     *)
(* empty name is the empty byte string.  Time is counted in units of 0.1 s. *)
(***************************************************************************)
EXTENDS Integers, Sequences, FiniteSets, TLC

\* ------------------------------------------------------------------ bounds
MaxCalls == 4
MaxStream == 3

\* ------------------------------------------------------- names and schema
\* Method names of the protocol description (services of liqi_pb2).
MethodNames ==
  { ".lq.Lobby.heatbeat", ".lq.Lobby.oauth2Auth", ".lq.Lobby.oauth2Check",
    ".lq.Lobby.oauth2Login", ".lq.Lobby.fetchLastPrivacy",
    ".lq.Lobby.fetchServerTime", ".lq.Lobby.fetchServerSettings",
    ".lq.Lobby.fetchConnectionInfo", ".lq.Lobby.fetchClientValue",
    ".lq.Lobby.fetchFriendList", ".lq.Lobby.fetchFriendApplyList",
    ".lq.Lobby.fetchRecentFriend", ".lq.Lobby.fetchMailInfo",
    ".lq.Lobby.fetchDailyTask", ".lq.Lobby.fetchReviveCoinInfo",
    ".lq.Lobby.fetchTitleList", ".lq.Lobby.fetchBagInfo",
    ".lq.Lobby.fetchShopInfo", ".lq.Lobby.fetchShopInterval",
    ".lq.Lobby.fetchActivityList", ".lq.Lobby.fetchAccountActivityData",
    ".lq.Lobby.fetchActivityInterval", ".lq.Lobby.fetchActivityBuff",
    ".lq.Lobby.fetchVipReward", ".lq.Lobby.fetchMonthTicketInfo",
    ".lq.Lobby.fetchAchievement", ".lq.Lobby.fetchSelfGamePointRank",
    ".lq.Lobby.fetchCommentSetting", ".lq.Lobby.fetchAccountSettings",
    ".lq.Lobby.fetchModNicknameTime", ".lq.Lobby.fetchMisc",
    ".lq.Lobby.fetchAnnouncement", ".lq.Lobby.fetchRollingNotice",
    ".lq.Lobby.loginSuccess", ".lq.Lobby.fetchCharacterInfo",
    ".lq.Lobby.fetchAllCommonViews", ".lq.Lobby.loginBeat",
    ".lq.Lobby.fetchCollectedGameRecordList", ".lq.Lobby.updateClientValue",
    ".lq.Lobby.readAnnouncement", ".lq.Lobby.doActivitySignIn",
    ".lq.Lobby.createRoom", ".lq.Lobby.joinRoom" }

\* Message type names of the protocol description (notifications).
TypeNames ==
  { ".lq.NotifyAccountUpdate", ".lq.NotifyShopUpdate", ".lq.NotifyNewMail",
    ".lq.NotifyAnnouncementUpdate" }

\* A name the protocol description does not know.
UnknownApi == ".lq.Lobby.unknownApi"

\* The keys of _message_type_map.
message_type_map == MethodNames \cup TypeNames

\* The byte codes of the names: position in this table plus 64.
NameTable ==
  << ".lq.Lobby.heatbeat", ".lq.Lobby.oauth2Login", ".lq.Lobby.fetchDailyTask",
     ".lq.Lobby.loginBeat", ".lq.Lobby.updateClientValue",
     ".lq.Lobby.createRoom", ".lq.Lobby.joinRoom", ".lq.NotifyAccountUpdate",
     ".lq.Lobby.fetchFriendList", ".lq.Lobby.unknownApi" >>

EncodeName(name) ==
  IF name = "" THEN <<>>
  ELSE << 64 + (CHOOSE i \in DOMAIN NameTable : NameTable[i] = name) >>

\* bytes -> str of a protobuf string field; bytes that are no name of the
\* table decode to a name outside the protocol description.
DecodeName(bytes) ==
  IF bytes = <<>> THEN ""
  ELSE IF Len(bytes) = 1 /\ (bytes[1] - 64) \in DOMAIN NameTable
       THEN NameTable[bytes[1] - 64]
       ELSE UnknownApi

\* ------------------------------------------------------ protobuf wire form
\* Key of a field on the wire: (field number * 8) + wire type.
\* Wire type 0 is a varint (one byte here), 2 is length-delimited.
WireType(key) == key % 8
FieldNumber(key) == key \div 8

DropFirst(bytes, n) == SubSeq(bytes, n + 1, Len(bytes))

\* ParseFromString: the fields of a serialized message, as a function from
\* wire key to the last value seen (a number for a varint, bytes for a
\* length-delimited field).  ok is FALSE where the parser raises DecodeError.
RECURSIVE ParseFields(_, _)
ParseFields(bytes, acc) ==
  IF bytes = <<>> THEN [ok |-> TRUE, fields |-> acc]
  ELSE
    LET key == bytes[1] IN
    IF FieldNumber(key) = 0 THEN [ok |-> FALSE, fields |-> acc]
    ELSE IF WireType(key) = 0 THEN
      IF Len(bytes) < 2 THEN [ok |-> FALSE, fields |-> acc]
      ELSE ParseFields(DropFirst(bytes, 2), (key :> bytes[2]) @@ acc)
    ELSE IF WireType(key) = 2 THEN
      IF Len(bytes) < 2 \/ Len(bytes) < 2 + bytes[2]
      THEN [ok |-> FALSE, fields |-> acc]
      ELSE ParseFields(DropFirst(bytes, 2 + bytes[2]),
                       (key :> SubSeq(bytes, 3, 2 + bytes[2])) @@ acc)
    ELSE IF WireType(key) = 1 THEN
      IF Len(bytes) < 9 THEN [ok |-> FALSE, fields |-> acc]
      ELSE ParseFields(DropFirst(bytes, 9), acc)
    ELSE IF WireType(key) = 5 THEN
      IF Len(bytes) < 5 THEN [ok |-> FALSE, fields |-> acc]
      ELSE ParseFields(DropFirst(bytes, 5), acc)
    ELSE [ok |-> FALSE, fields |-> acc]

NoFields == [k \in {} |-> 0]

\* Serialized Wrapper{name = 1 (string), data = 2 (bytes)}; proto3 leaves
\* out a field that holds its default value.
Wrap(name, data) ==
  (IF name = "" THEN <<>>
   ELSE <<10, Len(EncodeName(name))>> \o EncodeName(name))
  \o (IF data = <<>> THEN <<>> ELSE <<18, Len(data)>> \o data)

\* unwrap_message: (wrapper.name, wrapper.data) of the parsed bytes.
unwrap_message(message) ==
  LET p == ParseFields(message, NoFields) IN
  [ok   |-> p.ok,
   name |-> IF p.ok /\ 10 \in DOMAIN p.fields
            THEN DecodeName(p.fields[10]) ELSE "",
   data |-> IF p.ok /\ 18 \in DOMAIN p.fields THEN p.fields[18] ELSE <<>>]

\* ------------------------------------------------- the decoded structures
\* An absent response (Python None) is present = FALSE.
Absent == [present |-> FALSE, value |-> NoFields]
Present(value) == [present |-> TRUE, value |-> value]
NoBytes == [present |-> FALSE, bytes |-> <<>>]
SomeBytes(bytes) == [present |-> TRUE, bytes |-> bytes]

\* Message: (request_direction, name, request, response, timestamp).
Message(direction, name, request, response, timestamp) ==
  [direction |-> direction, name |-> name, request |-> request,
   response |-> response, timestamp |-> timestamp]

NoMessage == Message("", "", NoFields, Absent, 0)

\* What a call of dequeue_message gives back: a Message, None, or an
\* exception that leaves the call.
Returned(m) == [kind |-> "message", msg |-> m, err |-> ""]
ReturnedNone == [kind |-> "none", msg |-> NoMessage, err |-> ""]
Raised(e) == [kind |-> "error", msg |-> NoMessage, err |-> e]

\* The account id of a client that has none yet (Python None).
NoAccount == -1

\* _ACCOUNT_ID_MESSAGES: the key path to the account id in the response.
ACCOUNT_ID_MESSAGES ==
  ".lq.Lobby.oauth2Login" :> << "account_id" >>
  @@ ".lq.Lobby.createRoom" :> << "room', 'owner_id" >>

\* ------------------------------------------------------------- jsonize
\* MessageToDict of the response types that carry an account id, with the
\* default value of a scalar that is not on the wire:
\*   ResLogin      { uint32 account_id = 2; }
\*   ResCreateRoom { Room room = 2; }   Room { uint32 owner_id = 2; }
\* Every other type is rendered without fields.
RoomToDict(bytes) ==
  LET p == ParseFields(bytes, NoFields) IN
  [ok |-> p.ok,
   value |-> [owner_id |-> IF p.ok /\ 16 \in DOMAIN p.fields
                           THEN p.fields[16] ELSE 0]]

ResponseToDict(name, fields) ==
  IF name = ".lq.Lobby.oauth2Login"
  THEN [ok |-> TRUE,
        value |-> [account_id |-> IF 16 \in DOMAIN fields
                                  THEN fields[16] ELSE 0]]
  ELSE IF name = ".lq.Lobby.createRoom" /\ 18 \in DOMAIN fields
  THEN [ok |-> RoomToDict(fields[18]).ok,
        value |-> [room |-> RoomToDict(fields[18]).value]]
  ELSE [ok |-> TRUE, value |-> NoFields]

jsonize(name, data, is_response) ==
  IF name \notin message_type_map
  THEN [ok |-> FALSE, err |-> IF is_response THEN "KeyError"
                              ELSE "A new API found", value |-> NoFields]
  ELSE IF is_response /\ name \in TypeNames
  THEN [ok |-> FALSE, err |-> "TypeError", value |-> NoFields]
  ELSE
    LET p == ParseFields(data, NoFields) IN
    IF ~p.ok THEN [ok |-> FALSE, err |-> "DecodeError", value |-> NoFields]
    ELSE IF ~is_response THEN [ok |-> TRUE, err |-> "", value |-> NoFields]
    ELSE LET d == ResponseToDict(name, p.fields) IN
         IF d.ok THEN [ok |-> TRUE, err |-> "", value |-> d.value]
         ELSE [ok |-> FALSE, err |-> "DecodeError", value |-> NoFields]

\* ------------------------------------------------- decoding a live frame
\* The tags the match statement on request[0] has a case for.
RequestTagKnownAny(tag) == TRUE
RequestTagKnown(tag) == tag \in {1, 2}

\* Offset of the wrapped payload in a request with the given tag byte.
RequestOffset(tag) == IF tag = 1 THEN 1 ELSE 3

\* The response unwrapped from the byte after the tag.
ResponseOffsetOne == 3 - 2

\* Offset of the wrapped payload in a response (line 123).
ResponseOffset == 3

\* Lines 196-203: follow the keys into the decoded response.
RECURSIVE WalkKeys(_, _)
WalkKeys(obj, keys) ==
  IF keys = <<>> THEN [ok |-> TRUE, value |-> obj]
  ELSE IF Head(keys) \notin DOMAIN obj THEN [ok |-> FALSE, value |-> 0]
  ELSE WalkKeys(obj[Head(keys)], Tail(keys))

\* The same with the identity assigned whenever a message carries one.
ExtractAccountIdOverwrite(name, response, account_id) ==
  IF name \notin DOMAIN ACCOUNT_ID_MESSAGES \/ ~response.present
     \/ ~WalkKeys(response.value, ACCOUNT_ID_MESSAGES[name]).ok
  THEN [ok |-> TRUE, err |-> "", account_id |-> account_id]
  ELSE [ok |-> TRUE, err |-> "",
        account_id |-> WalkKeys(response.value,
                                ACCOUNT_ID_MESSAGES[name]).value]

\* Lines 190-208: the account id a message carries, against the client's.
ExtractAccountId(name, response, account_id) ==
  IF name \notin DOMAIN ACCOUNT_ID_MESSAGES
  THEN [ok |-> TRUE, err |-> "", account_id |-> account_id]
  ELSE IF ~response.present
  THEN [ok |-> FALSE, err |-> "Message without any response",
        account_id |-> account_id]
  ELSE
    LET found == WalkKeys(response.value, ACCOUNT_ID_MESSAGES[name]) IN
    IF ~found.ok
    THEN [ok |-> FALSE, err |-> "Could not find account id field",
          account_id |-> account_id]
    ELSE IF account_id = NoAccount
    THEN [ok |-> TRUE, err |-> "", account_id |-> found.value]
    ELSE IF found.value # account_id
    THEN [ok |-> FALSE, err |-> "Inconsistent account IDs",
          account_id |-> account_id]
    ELSE [ok |-> TRUE, err |-> "", account_id |-> account_id]

\* Lines 82-214 of dequeue_message: the frame the capture service gave,
\* decoded against the client's account id.  out is the Message or the
\* exception, account_id the client's identity afterwards.
DecodeFrame(frame, account_id) ==
  LET request == frame.request
      response == frame.response
      Fail(e) == [out |-> Raised(e), account_id |-> account_id]
  IN
  IF request = <<>> THEN Fail("IndexError")
  ELSE IF ~RequestTagKnown(request[1]) THEN Fail("unknown request type")
  ELSE
    LET req == unwrap_message(DropFirst(request, RequestOffset(request[1])))
    IN
    IF ~req.ok THEN Fail("DecodeError")
    ELSE IF response.present /\ response.bytes = <<>> THEN Fail("IndexError")
    ELSE IF response.present /\ response.bytes[1] # 3
    THEN Fail("unknown response type")
    ELSE
      LET res == IF response.present
                 THEN unwrap_message(DropFirst(response.bytes, ResponseOffset))
                 ELSE [ok |-> TRUE, name |-> "", data |-> <<>>]
      IN
      IF ~res.ok THEN Fail("DecodeError")
      ELSE IF res.name # "" THEN Fail("unknown response name")
      ELSE
        LET jreq == jsonize(req.name, req.data, FALSE) IN
        IF ~jreq.ok THEN Fail(jreq.err)
        ELSE
          LET jres == IF response.present
                      THEN jsonize(req.name, res.data, TRUE)
                      ELSE [ok |-> TRUE, err |-> "", value |-> NoFields]
              jsonized_response == IF response.present
                                   THEN Present(jres.value) ELSE Absent
          IN
          IF ~jres.ok THEN Fail(jres.err)
          ELSE
            LET id == ExtractAccountId(req.name, jsonized_response, account_id)
            IN
            IF ~id.ok THEN Fail(id.err)
            ELSE [out |-> Returned(Message(frame.request_direction, req.name,
                                           jreq.value, jsonized_response,
                                           frame.timestamp)),
                  account_id |-> id.account_id]

\* ---------------------------------------------------- the capture channel
\* A frame as blpop gives it: the request bytes, the response bytes if a
\* response was captured with the request, direction and timestamp.
Frame(direction, request, response, timestamp) ==
  [request_direction |-> direction, request |-> request,
   response |-> response, timestamp |-> timestamp]

NoFrame == Frame("", <<>>, NoBytes, 0)

\* Request bytes: the tag, the two bytes of the message number unless the
\* tag is 1, the wrapped payload.
RequestBytes(tag, name, data) ==
  <<tag>> \o (IF tag = 1 THEN <<>> ELSE <<0, 0>>) \o Wrap(name, data)

\* Response bytes: the tag, the message number, the wrapped payload.
ResponseBytes(tag, name, data) == <<tag, 0, 0>> \o Wrap(name, data)

\* Payload of a ResLogin with the account id, of a ResCreateRoom with the
\* owner of the room.
LoginData(id) == <<16, id>>
CreateRoomData(id) == <<18, 2, 16, id>>

\* The frames the capture service hands to the client in this model, by
\* what they were built from.
MkFrame(p) ==
  Frame(p.dir, RequestBytes(p.tag, p.name, <<>>),
        IF p.rtag = 0 THEN NoBytes
        ELSE SomeBytes(ResponseBytes(p.rtag, p.rname, p.rdata)), p.ts)

FrameParam(dir, tag, name, rtag, rname, rdata, ts) ==
  [dir |-> dir, tag |-> tag, name |-> name, rtag |-> rtag, rname |-> rname,
   rdata |-> rdata, ts |-> ts]

NoParam == FrameParam("", 0, "", 0, "", <<>>, 0)

\* What one blocking pop gives: a frame, or nothing within the timeout.
\* The frame is kept together with what it was built from.
Pulled(frame, param) == [got |-> TRUE, frame |-> frame, param |-> param]
NotPulled == [got |-> FALSE, frame |-> NoFrame, param |-> NoParam]

\* rtag = 0 stands for a frame without response bytes.
FrameParams ==
  { FrameParam("in", 1, ".lq.NotifyAccountUpdate", 0, "", <<>>, 1),
    FrameParam("out", 2, ".lq.Lobby.oauth2Login", 3, "", LoginData(1), 2),
    FrameParam("out", 2, ".lq.Lobby.oauth2Login", 3, "", LoginData(2), 3),
    FrameParam("out", 2, ".lq.Lobby.createRoom", 3, "", CreateRoomData(1), 4),
    FrameParam("out", 2, ".lq.Lobby.heatbeat", 0, "", <<>>, 6),
    FrameParam("out", 4, ".lq.Lobby.heatbeat", 3, "", <<>>, 7),
    FrameParam("out", 2, ".lq.Lobby.heatbeat", 4, "", <<>>, 8),
    FrameParam("out", 2, ".lq.Lobby.heatbeat", 3, ".lq.Lobby.heatbeat",
               <<>>, 9),
    FrameParam("out", 1, ".lq.Lobby.oauth2Login", 3, "", LoginData(1), 10),
    FrameParam("out", 2, ".lq.Lobby.unknownApi", 3, "", <<>>, 11) }

ClientFrames == { Pulled(MkFrame(p), p) : p \in FrameParams }

\* Messages a caller puts back.
PutBackMessages ==
  { Message("in", ".lq.NotifyAccountUpdate", NoFields, Absent, 21),
    Message("out", ".lq.Lobby.oauth2Login", NoFields,
            Present([account_id |-> 2]), 22) }

\* Timeouts a caller passes to dequeue_message.
ClientTimeouts == {-10, 0, 10}

\* ------------------------------------------------- overlays on the screen
\* The two templates _close_notifications looks for (lines 42-47).
NotificationClose == "template/home/notification_close"
EventClose == "template/home/event_close"

\* What Template.best_template_match finds on a screenshot: the score of
\* the best match of each template.
Scores == 1..3
Screenshots == [{NotificationClose, EventClose} -> Scores]
\* No screenshot taken yet.
NoScreenshot == [t \in {NotificationClose, EventClose} |-> 0]

\* Template.threshold: each template has its own acceptance threshold.
Threshold(target) == IF target = NotificationClose THEN 2 ELSE 3

\* ---------------------------------------------------------------- state
VARIABLES
  put_back_messages,  \* DBClientBase._put_back_messages, leftmost first
  account_id,         \* DBClientBase._account_id
  hist,               \* the calls made on the client so far, in order
  pc,                 \* where HomePresentation.__init__ stands
  sct,                \* the markers visible on the screenshot it took
  num_login_beats,    \* local num_login_beats of __init__
  break_,             \* local break_ of __init__
  now,                \* the clock
  deadline,           \* local deadline of __init__
  error,              \* the exception that left __init__ or
                      \* _close_notifications
  dispatched,         \* the names the match statements were entered with
  ops,                \* the calls made on the browser and the templates
  stale,              \* whether the Home object has been superseded
  new_presentation,   \* the presentation create_room adopted, if any
  room_ops,           \* the calls the last create_room made on the browser,
                      \* the templates and the room screen
  room_error,         \* how the last call of create_room ended
  room_calls,         \* the calls of create_room made so far
  close_pc,           \* where _close_notifications stands
  close_deadline,     \* local deadline of _close_notifications
  close_sct           \* local sct of _close_notifications: the best-match
                      \* score of each overlay target on the screenshot

vars == << put_back_messages, account_id, hist, pc, sct, num_login_beats,
           break_, now, deadline, error, dispatched, ops, stale,
           new_presentation, room_ops, room_error, room_calls, close_pc,
           close_deadline, close_sct >>

clientVars == << put_back_messages, account_id, hist >>
homeVars == << pc, sct, num_login_beats, break_, now, deadline, error,
               dispatched, ops >>
roomVars == << stale, new_presentation, room_ops, room_error, room_calls >>
closeVars == << close_pc, close_deadline, close_sct >>

\* ------------------------------------------------------ DBClient methods
\* put_back with append in place of appendleft.
put_back_append(message, stack) == stack \o <<message>>

\* put_back (lines 49-50): appendleft.
put_back(message, stack) == <<message>> \o stack

\* dequeue_message with the put-back stack looked at before the timeout.
dequeue_message_stack_first(timeout, pulled, stack, acct) ==
  IF Len(stack) > 0
  THEN [out |-> Returned(Head(stack)), stack |-> Tail(stack),
        account_id |-> acct, live |-> FALSE]
  ELSE IF timeout <= 0 \/ ~pulled.got
  THEN [out |-> ReturnedNone, stack |-> stack, account_id |-> acct,
        live |-> timeout > 0]
  ELSE [out |-> DecodeFrame(pulled.frame, acct).out, stack |-> stack,
        account_id |-> DecodeFrame(pulled.frame, acct).account_id,
        live |-> TRUE]

\* dequeue_message with pop in place of popleft.
dequeue_message_pop(timeout, pulled, stack, acct) ==
  IF timeout <= 0
  THEN [out |-> ReturnedNone, stack |-> stack, account_id |-> acct,
        live |-> FALSE]
  ELSE IF Len(stack) > 0
  THEN [out |-> Returned(stack[Len(stack)]),
        stack |-> SubSeq(stack, 1, Len(stack) - 1),
        account_id |-> acct, live |-> FALSE]
  ELSE IF ~pulled.got
  THEN [out |-> ReturnedNone, stack |-> stack, account_id |-> acct,
        live |-> TRUE]
  ELSE [out |-> DecodeFrame(pulled.frame, acct).out, stack |-> stack,
        account_id |-> DecodeFrame(pulled.frame, acct).account_id,
        live |-> TRUE]

\* dequeue_message (lines 67-214).  pulled is what blpop gives if it is
\* called; live tells whether it was called.
dequeue_message(timeout, pulled, stack, acct) ==
  IF timeout <= 0
  THEN [out |-> ReturnedNone, stack |-> stack, account_id |-> acct,
        live |-> FALSE]
  ELSE IF Len(stack) > 0
  THEN [out |-> Returned(Head(stack)), stack |-> Tail(stack),
        account_id |-> acct, live |-> FALSE]
  ELSE IF ~pulled.got
  THEN [out |-> ReturnedNone, stack |-> stack, account_id |-> acct,
        live |-> TRUE]
  ELSE [out |-> DecodeFrame(pulled.frame, acct).out, stack |-> stack,
        account_id |-> DecodeFrame(pulled.frame, acct).account_id,
        live |-> TRUE]

\* Whether a call with this timeout on this stack reaches blpop.
ReachesChannel(timeout, stack) == timeout > 0 /\ Len(stack) = 0

\* Entries of the call history.
PutBackCall(message, acct) ==
  [op |-> "put_back", timeout |-> 0, arg |-> message, live |-> FALSE,
   frame |-> NoFrame, param |-> NoParam, out |-> ReturnedNone,
   account_id |-> acct]
DequeueCall(timeout, pulled, r) ==
  [op |-> "dequeue", timeout |-> timeout, arg |-> NoMessage,
   live |-> r.live, frame |-> IF r.live THEN pulled.frame ELSE NoFrame,
   param |-> IF r.live THEN pulled.param ELSE NoParam,
   out |-> r.out, account_id |-> r.account_id]

Init ==
  /\ put_back_messages = <<>>
  /\ account_id = NoAccount
  /\ hist = <<>>
  /\ pc = "start"
  /\ sct = {}
  /\ num_login_beats = 0
  /\ break_ = FALSE
  /\ now = 0
  /\ deadline = 0
  /\ error = ""
  /\ dispatched = <<>>
  /\ ops = <<>>
  /\ stale = FALSE
  /\ new_presentation = "none"
  /\ room_ops = <<>>
  /\ room_error = ""
  /\ room_calls = 0
  /\ close_pc = "idle"
  /\ close_deadline = 0
  /\ close_sct = NoScreenshot

\* ------------------------------------------- a caller driving the client
CallPutBack ==
  /\ Len(hist) < MaxCalls
  /\ \E m \in PutBackMessages :
       /\ put_back_messages' = put_back(m, put_back_messages)
       /\ hist' = Append(hist, PutBackCall(m, account_id))
  /\ UNCHANGED << account_id, homeVars, roomVars, closeVars >>

CallDequeue ==
  /\ Len(hist) < MaxCalls
  /\ \E t \in ClientTimeouts :
     \E pulled \in IF ReachesChannel(t, put_back_messages)
                   THEN {NotPulled} \cup ClientFrames
                   ELSE {NotPulled} :
     \E r \in {dequeue_message(t, pulled, put_back_messages, account_id)} :
       /\ put_back_messages' = r.stack
       /\ account_id' = r.account_id
       /\ hist' = Append(hist, DequeueCall(t, pulled, r))
  /\ UNCHANGED << homeVars, roomVars, closeVars >>

Next == CallPutBack \/ CallDequeue

Spec == Init /\ [][Next]_vars

\* ------------------------------------------- HomePresentation.__init__
\* Timeouts of the waits, in units of 0.1 s: the peek after fetchDailyTask
\* (dequeue_message(5)) and the drain of phase 2 (dequeue_message(0.1)).
LookaheadTimeout == 50
Phase2Timeout == 1

\* The names the first match statement logs and skips (lines 129-146,
\* 173-196 and 203-205).
Phase1Skip ==
  { ".lq.Lobby.heatbeat", ".lq.NotifyAccountUpdate", ".lq.NotifyShopUpdate",
    ".lq.Lobby.oauth2Auth", ".lq.Lobby.oauth2Check", ".lq.NotifyNewMail",
    ".lq.Lobby.oauth2Login", ".lq.Lobby.fetchLastPrivacy",
    ".lq.Lobby.fetchServerTime", ".lq.Lobby.fetchServerSettings",
    ".lq.Lobby.fetchConnectionInfo", ".lq.Lobby.fetchClientValue",
    ".lq.Lobby.fetchFriendList", ".lq.Lobby.fetchFriendApplyList",
    ".lq.Lobby.fetchRecentFriend", ".lq.Lobby.fetchMailInfo",
    ".lq.Lobby.fetchReviveCoinInfo", ".lq.Lobby.fetchTitleList",
    ".lq.Lobby.fetchBagInfo", ".lq.Lobby.fetchShopInfo",
    ".lq.Lobby.fetchShopInterval", ".lq.Lobby.fetchActivityList",
    ".lq.Lobby.fetchAccountActivityData", ".lq.Lobby.fetchActivityInterval",
    ".lq.Lobby.fetchActivityBuff", ".lq.Lobby.fetchVipReward",
    ".lq.Lobby.fetchMonthTicketInfo", ".lq.Lobby.fetchAchievement",
    ".lq.Lobby.fetchSelfGamePointRank", ".lq.Lobby.fetchCommentSetting",
    ".lq.Lobby.fetchAccountSettings", ".lq.Lobby.fetchModNicknameTime",
    ".lq.Lobby.fetchMisc", ".lq.Lobby.fetchAnnouncement",
    ".lq.Lobby.fetchRollingNotice", ".lq.Lobby.loginSuccess",
    ".lq.Lobby.fetchCharacterInfo", ".lq.Lobby.fetchAllCommonViews",
    ".lq.Lobby.fetchCollectedGameRecordList" }

\* The names the second match statement skips (lines 217-221, 236-241).
Phase2Skip ==
  { ".lq.Lobby.heatbeat", ".lq.Lobby.updateClientValue",
    ".lq.NotifyAccountUpdate", ".lq.NotifyAnnouncementUpdate",
    ".lq.Lobby.readAnnouncement", ".lq.Lobby.doActivitySignIn" }

\* The first match statement without the final raise: a name no case
\* matches is skipped.
Phase1ActionNoRaise(name) ==
  IF name = ".lq.Lobby.fetchDailyTask" THEN "lookahead"
  ELSE IF name = ".lq.Lobby.loginBeat" THEN "beat"
  ELSE "skip"

\* What the first match statement (lines 128-207) does with a name.
Phase1Action(name) ==
  IF name \in Phase1Skip THEN "skip"
  ELSE IF name = ".lq.Lobby.fetchDailyTask" THEN "lookahead"
  ELSE IF name = ".lq.Lobby.loginBeat" THEN "beat"
  ELSE "fatal"

\* The second match statement with every name fatal.
Phase2ActionAllFatal(name) == "fatal"

\* The second match statement without the heartbeat case.
Phase2ActionNoHeartbeat(name) ==
  IF name \in Phase2Skip \ {".lq.Lobby.heatbeat"} THEN "skip"
  ELSE IF name = ".lq.Lobby.fetchDailyTask" THEN "lookahead"
  ELSE "fatal"

\* What the second match statement (lines 216-243) does with a name.
Phase2Action(name) ==
  IF name \in Phase2Skip THEN "skip"
  ELSE IF name = ".lq.Lobby.fetchDailyTask" THEN "lookahead"
  ELSE "fatal"

\* Phase 1 ended by the first login heartbeat.
LoginBeatsNeededOne == 2 - 1

\* The count of login heartbeats that ends phase 1 (line 200).
LoginBeatsNeeded == 2

\* A call on the browser or on a template, as the log of calls keeps it:
\* what was called, on which template, whether it succeeded, and the
\* deadline it was given (0 where the call takes none).
Op(op, target, ok, dl) == [op |-> op, target |-> target, ok |-> ok, dl |-> dl]

Marker(i) ==
  IF i = 1 THEN "template/home/marker1"
  ELSE IF i = 2 THEN "template/home/marker2"
  ELSE "template/home/marker3"

\* The loop of _match_markers with every marker tested, whatever the
\* earlier ones gave.
RECURSIVE match_loop_all(_, _, _)
match_loop_all(screenshot, i, tested) ==
  IF i > 3 THEN [result |-> \A k \in 1..3 : k \in screenshot,
                 tested |-> tested]
  ELSE match_loop_all(screenshot, i + 1,
                      Append(tested, Op("match", Marker(i),
                                        i \in screenshot, 0)))

\* The loop of _match_markers (lines 25-30) from marker i on: the result
\* and the calls of Template.match it made, in order.  A screenshot is the
\* set of the markers it shows.
RECURSIVE match_loop(_, _, _)
match_loop(screenshot, i, tested) ==
  IF i > 3 THEN [result |-> TRUE, tested |-> tested]
  ELSE IF i \notin screenshot
  THEN [result |-> FALSE,
        tested |-> Append(tested, Op("match", Marker(i), FALSE, 0))]
  ELSE match_loop(screenshot, i + 1,
                  Append(tested, Op("match", Marker(i), TRUE, 0)))

\* _match_markers with range(1, 3) in place of range(1, 4).
match_markers_first_two(screenshot) ==
  match_loop(screenshot \cup {3}, 1, <<>>).result

\* _match_markers (lines 23-30): markers 1..3 all match the screenshot.
match_markers(screenshot) == match_loop(screenshot, 1, <<>>).result

\* The frames the capture service holds during login: well-formed tag-2
\* requests with their tag-3 responses.
HomeParams ==
  { FrameParam("out", 2, ".lq.Lobby.loginBeat", 3, "", <<>>, 31),
    FrameParam("out", 2, ".lq.Lobby.heatbeat", 3, "", <<>>, 32),
    FrameParam("out", 2, ".lq.Lobby.fetchDailyTask", 3, "", <<>>, 33),
    FrameParam("out", 2, ".lq.Lobby.oauth2Login", 3, "", LoginData(1), 34),
    FrameParam("out", 2, ".lq.Lobby.oauth2Login", 3, "", LoginData(2), 35),
    FrameParam("out", 2, ".lq.Lobby.updateClientValue", 3, "", <<>>, 36),
    FrameParam("out", 2, ".lq.Lobby.joinRoom", 3, "", <<>>, 37) }

HomeFrames == { Pulled(MkFrame(p), p) : p \in HomeParams }

\* Timeouts the constructor is called with, and the time that may pass
\* between two iterations of the first loop.
HomeTimeouts == {0, 30, 600}
Delays == {0, 400}

\* The frames blpop has given so far.
PulledCount ==
  Cardinality({ i \in 1..Len(hist) :
                  hist[i].op = "dequeue" /\ hist[i].live
                  /\ hist[i].frame # NoFrame })

\* What blpop may give to a call of dequeue_message made now.
Offers(timeout) ==
  IF ReachesChannel(timeout, put_back_messages)
  THEN {NotPulled} \cup (IF PulledCount < MaxStream
                         THEN HomeFrames ELSE {})
  ELSE {NotPulled}

Fails(e) == pc' = "failed" /\ error' = e

\* An entry of dispatched: the phase whose match statement was entered,
\* the name it was entered with, and the call on the client that returned
\* the message.
Dispatch(phase, name, call) == [phase |-> phase, name |-> name, call |-> call]

\* The inner loop of phase 1 with every peeked message discarded.
PeekAction1DiscardAll(name) == "discard"

\* What the inner loop of phase 1 does with a peeked message (lines
\* 159-168): a heartbeat is discarded, anything else is put back.
PeekAction1(name) ==
  IF name = ".lq.Lobby.heatbeat" THEN "discard" ELSE "put_back"

\* Lines 104-119: deadline, screenshot, marker confirmation.
HomeInit ==
  /\ pc = "start"
  /\ \E timeout \in HomeTimeouts : deadline' = now + timeout
  /\ \E screenshot \in SUBSET (1..3) : sct' = screenshot
  /\ IF ~match_markers(sct')
     THEN Fails("PresentationNotDetected")
     ELSE pc' = "phase1" /\ error' = error
  /\ ops' = ops \o << Op("get_screenshot", "", TRUE, 0) >>
                 \o match_loop(sct', 1, <<>>).tested
  /\ num_login_beats' = 0
  /\ UNCHANGED << clientVars, break_, now, dispatched, roomVars,
                  closeVars >>

\* Lines 120-207: one iteration of the first loop, up to the inner loop.
Phase1 ==
  /\ pc = "phase1"
  /\ \E d \in Delays :
     \E pulled \in Offers(deadline - (now + d)) :
     \E timeout \in {deadline - (now + d)} :
     \E r \in {dequeue_message(timeout, pulled, put_back_messages,
                               account_id)} :
     \E name \in {r.out.msg.name} :
       /\ put_back_messages' = r.stack
       /\ account_id' = r.account_id
       /\ hist' = Append(hist, DequeueCall(timeout, pulled, r))
       /\ now' = IF r.live /\ ~pulled.got THEN deadline ELSE now + d
       /\ IF r.out.kind = "none"
          THEN /\ Fails("Timeout")
               /\ UNCHANGED << num_login_beats, break_, dispatched >>
          ELSE IF r.out.kind = "error"
          THEN /\ Fails(r.out.err)
               /\ UNCHANGED << num_login_beats, break_, dispatched >>
          ELSE
            /\ dispatched' = Append(dispatched, Dispatch(1, name, Len(hist')))
            /\ IF Phase1Action(name) = "skip"
               THEN /\ pc' = "phase1"
                    /\ UNCHANGED << num_login_beats, break_, error >>
               ELSE IF Phase1Action(name) = "lookahead"
               THEN /\ pc' = "lookahead1"
                    /\ break_' = FALSE
                    /\ UNCHANGED << num_login_beats, error >>
               ELSE IF Phase1Action(name) = "beat"
               THEN /\ num_login_beats' = num_login_beats + 1
                    /\ pc' = IF num_login_beats' = LoginBeatsNeeded
                             THEN "phase2" ELSE "phase1"
                    /\ UNCHANGED << break_, error >>
               ELSE /\ Fails("InconsistentMessage")
                    /\ UNCHANGED << num_login_beats, break_ >>
  /\ UNCHANGED << sct, deadline, ops, roomVars, closeVars >>

\* Lines 151-172: one iteration of the loop that peeks after fetchDailyTask.
Lookahead1 ==
  /\ pc = "lookahead1"
  /\ \E pulled \in Offers(LookaheadTimeout) :
     \E r \in {dequeue_message(LookaheadTimeout, pulled, put_back_messages,
                               account_id)} :
     \E call \in {DequeueCall(LookaheadTimeout, pulled, r)} :
       /\ account_id' = r.account_id
       /\ now' = IF r.live /\ ~pulled.got THEN now + LookaheadTimeout ELSE now
       /\ IF r.out.kind = "none"
          THEN /\ break_' = TRUE
               /\ pc' = "phase2"
               /\ put_back_messages' = r.stack
               /\ hist' = Append(hist, call)
               /\ UNCHANGED error
          ELSE IF r.out.kind = "error"
          THEN /\ Fails(r.out.err)
               /\ put_back_messages' = r.stack
               /\ hist' = Append(hist, call)
               /\ UNCHANGED break_
          ELSE IF PeekAction1(r.out.msg.name) = "discard"
          THEN /\ pc' = "lookahead1"
               /\ put_back_messages' = r.stack
               /\ hist' = Append(hist, call)
               /\ UNCHANGED << break_, error >>
          ELSE /\ pc' = "phase1"
               /\ put_back_messages' = put_back(r.out.msg, r.stack)
               /\ hist' = hist \o << call,
                                     PutBackCall(r.out.msg, r.account_id) >>
               /\ UNCHANGED << break_, error >>
  /\ UNCHANGED << sct, num_login_beats, deadline, dispatched, ops, roomVars,
                  closeVars >>

\* Lines 209-243: one iteration of the second loop, up to the peek.
Phase2 ==
  /\ pc = "phase2"
  /\ \E pulled \in Offers(Phase2Timeout) :
     \E r \in {dequeue_message(Phase2Timeout, pulled, put_back_messages,
                               account_id)} :
     \E name \in {r.out.msg.name} :
       /\ put_back_messages' = r.stack
       /\ account_id' = r.account_id
       /\ hist' = Append(hist, DequeueCall(Phase2Timeout, pulled, r))
       /\ now' = IF r.live /\ ~pulled.got THEN now + Phase2Timeout ELSE now
       /\ IF r.out.kind = "none"
          THEN pc' = "live" /\ UNCHANGED << error, dispatched >>
          ELSE IF r.out.kind = "error"
          THEN Fails(r.out.err) /\ UNCHANGED dispatched
          ELSE
            /\ dispatched' = Append(dispatched, Dispatch(2, name, Len(hist')))
            /\ IF Phase2Action(name) = "skip"
               THEN pc' = "phase2" /\ UNCHANGED error
               ELSE IF Phase2Action(name) = "lookahead"
               THEN pc' = "lookahead2" /\ UNCHANGED error
               ELSE Fails("InconsistentMessage")
  /\ UNCHANGED << sct, num_login_beats, break_, deadline, ops, roomVars,
                  closeVars >>

\* Lines 228-235: the peek after fetchDailyTask in the second loop.
Lookahead2 ==
  /\ pc = "lookahead2"
  /\ \E pulled \in Offers(LookaheadTimeout) :
     \E r \in {dequeue_message(LookaheadTimeout, pulled, put_back_messages,
                               account_id)} :
     \E call \in {DequeueCall(LookaheadTimeout, pulled, r)} :
       /\ account_id' = r.account_id
       /\ now' = IF r.live /\ ~pulled.got THEN now + LookaheadTimeout ELSE now
       /\ IF r.out.kind = "none"
          THEN /\ pc' = "live"
               /\ put_back_messages' = r.stack
               /\ hist' = Append(hist, call)
               /\ UNCHANGED error
          ELSE IF r.out.kind = "error"
          THEN /\ Fails(r.out.err)
               /\ put_back_messages' = r.stack
               /\ hist' = Append(hist, call)
          ELSE /\ pc' = "phase2"
               /\ put_back_messages' = put_back(r.out.msg, r.stack)
               /\ hist' = hist \o << call,
                                     PutBackCall(r.out.msg, r.account_id) >>
               /\ UNCHANGED error
  /\ UNCHANGED << sct, num_login_beats, break_, deadline, dispatched, ops,
                  roomVars, closeVars >>

HomeNext == HomeInit \/ Phase1 \/ Lookahead1 \/ Phase2 \/ Lookahead2

HomeSpec == Init /\ [][HomeNext]_vars

\* ------------------------------------------ HomePresentation.create_room
\* The calls of create_room that the model follows.
MaxRoomCalls == 2

\* The timeout create_room is called with: the default of 60 s.
RoomTimeouts == {600}

\* The steps with both waits made before the clicks they guard.
CreateRoomStepsClickLast ==
  << [op |-> "click", target |-> "template/home/marker3"],
     [op |-> "wait_until", target |-> "template/home/create_room"],
     [op |-> "wait_until", target |-> "template/home/room_creation/create"],
     [op |-> "click", target |-> "template/home/create_room"],
     [op |-> "click", target |-> "template/home/room_creation/create"],
     [op |-> "RoomHostPresentation._wait", target |-> ""],
     [op |-> "RoomHostPresentation._create", target |-> ""] >>

\* Lines 252-280: the calls create_room makes after the staleness guard,
\* in order.
CreateRoomSteps ==
  << [op |-> "click", target |-> "template/home/marker3"],
     [op |-> "wait_until", target |-> "template/home/create_room"],
     [op |-> "click", target |-> "template/home/create_room"],
     [op |-> "wait_until", target |-> "template/home/room_creation/create"],
     [op |-> "click", target |-> "template/home/room_creation/create"],
     [op |-> "RoomHostPresentation._wait", target |-> ""],
     [op |-> "RoomHostPresentation._create", target |-> ""] >>

\* How a call of create_room may go: the step that raises (0 if none
\* does) and what it raises.  Template.wait_until and the wait for the
\* room screen raise Timeout; the construction of the room screen raises
\* what the construction of a screen raises.
Fate(step, err) == [step |-> step, err |-> err]
Fates ==
  { Fate(0, "") }
  \cup { Fate(i, "Timeout") :
           i \in { n \in DOMAIN CreateRoomSteps :
                     CreateRoomSteps[n].op
                       \in {"wait_until", "RoomHostPresentation._wait"} } }
  \cup { Fate(Len(CreateRoomSteps), e) :
           e \in {"PresentationNotDetected", "InconsistentMessage"} }

\* _set_new_presentation called whatever became of the steps.
MarksStaleAlways(fate) == TRUE

\* Line 281 is reached, and the Home object superseded, when no step raised.
MarksStale(fate) == fate.step = 0

\* Lines 248-281: the steps up to the one that raises, with the deadline
\* of line 250 given to each wait.
create_room_body(fate, dl) ==
  LET last == IF fate.step = 0 THEN Len(CreateRoomSteps) ELSE fate.step IN
  [ops |-> [i \in 1..last |->
              Op(CreateRoomSteps[i].op, CreateRoomSteps[i].target,
                 i # fate.step,
                 IF CreateRoomSteps[i].op = "click" THEN 0 ELSE dl)],
   error |-> fate.err,
   stale |-> MarksStale(fate),
   adopted |-> fate.step = 0]

\* create_room without the guard of line 246.
create_room_unguarded(is_stale, fate, dl) ==
  [ops |-> create_room_body(fate, dl).ops,
   error |-> create_room_body(fate, dl).error,
   stale |-> is_stale \/ create_room_body(fate, dl).stale,
   adopted |-> create_room_body(fate, dl).adopted]

\* create_room (lines 245-281): _assert_not_stale raises on an object that
\* has been superseded, before anything else is done.
create_room(is_stale, fate, dl) ==
  IF is_stale
  THEN [ops |-> <<>>, error |-> "StaleUsage", stale |-> TRUE,
        adopted |-> FALSE]
  ELSE create_room_body(fate, dl)

CreateRoom ==
  /\ pc = "live"
  /\ room_calls < MaxRoomCalls
  /\ \E timeout \in RoomTimeouts : \E fate \in Fates :
     \E r \in {create_room(stale, fate, now + timeout)} :
       /\ room_ops' = r.ops
       /\ room_error' = r.error
       /\ stale' = r.stale
       /\ new_presentation' = IF r.adopted THEN "RoomHostPresentation"
                                           ELSE new_presentation
       /\ now' = IF r.error = "Timeout" THEN now + timeout ELSE now
  /\ room_calls' = room_calls + 1
  /\ UNCHANGED << clientVars, pc, sct, num_login_beats, break_, deadline,
                  error, dispatched, ops, closeVars >>

RoomNext == HomeNext \/ CreateRoom

RoomSpec == Init /\ [][RoomNext]_vars

\* ------------------------------ HomePresentation._close_notifications
\* time.sleep(1.0) after a click, in units of 0.1 s.
SleepTime == 10

\* Timeouts _close_notifications is called with, and the time that may
\* pass before the deadline is looked at.
CloseTimeouts == {0, 20}
CloseDelays == {0, 5}

\* One iteration in which the first click is not followed by continue.
close_iteration_no_continue(screenshot) ==
  LET Test(t) == Op("best_template_match", t,
                    screenshot[t] >= Threshold(t), 0)
      first == IF screenshot[NotificationClose] >= Threshold(NotificationClose)
               THEN << Op("click_region", NotificationClose, TRUE, 0),
                       Op("sleep", "", TRUE, 0) >>
               ELSE <<>>
      second == IF screenshot[EventClose] >= Threshold(EventClose)
                THEN << Op("click_region", EventClose, TRUE, 0),
                        Op("sleep", "", TRUE, 0) >>
                ELSE <<>>
  IN
  [ops |-> << Op("get_screenshot", "", TRUE, 0), Test(NotificationClose) >>
           \o first \o << Test(EventClose) >> \o second,
   again |-> first \o second # <<>>]

\* Lines 56-78: one iteration of the loop once the deadline was found not
\* to have lapsed: the calls it makes, and whether the loop goes on.
close_iteration(screenshot) ==
  LET shot == Op("get_screenshot", "", TRUE, 0)
      Test(t) == Op("best_template_match", t,
                    screenshot[t] >= Threshold(t), 0)
      Click(t) == Op("click_region", t, TRUE, 0)
      Sleep == Op("sleep", "", TRUE, 0)
  IN
  IF screenshot[NotificationClose] >= Threshold(NotificationClose)
  THEN [ops |-> << shot, Test(NotificationClose), Click(NotificationClose),
                   Sleep >>,
        again |-> TRUE]
  ELSE IF screenshot[EventClose] >= Threshold(EventClose)
  THEN [ops |-> << shot, Test(NotificationClose), Test(EventClose),
                   Click(EventClose), Sleep >>,
        again |-> TRUE]
  ELSE [ops |-> << shot, Test(NotificationClose), Test(EventClose) >>,
        again |-> FALSE]

\* Lines 38-47: the deadline.
CloseStart ==
  /\ close_pc = "idle"
  /\ \E timeout \in CloseTimeouts : close_deadline' = now + timeout
  /\ close_pc' = "loop"
  /\ UNCHANGED << clientVars, homeVars, roomVars, close_sct >>

\* Lines 51-78: one iteration of the loop.
CloseIteration ==
  /\ close_pc = "loop"
  /\ \E d \in CloseDelays :
       IF now + d > close_deadline
       THEN /\ close_pc' = "raised"
            /\ error' = "Timeout"
            /\ ops' = Append(ops, Op("get_screenshot", "", TRUE, 0))
            /\ now' = now + d
            /\ UNCHANGED close_sct
       ELSE \E screenshot \in Screenshots :
            \E r \in {close_iteration(screenshot)} :
              /\ close_sct' = screenshot
              /\ ops' = ops \o r.ops
              /\ now' = now + d + (IF r.again THEN SleepTime ELSE 0)
              /\ close_pc' = IF r.again THEN "loop" ELSE "returned"
              /\ UNCHANGED error
  /\ UNCHANGED << clientVars, pc, sct, num_login_beats, break_, deadline,
                  dispatched, roomVars, close_deadline >>

CloseNext == CloseStart \/ CloseIteration

CloseSpec == Init /\ [][CloseNext]_vars

\* ============================================================ the claims
\* Reading the call history.
Calls == 1..Len(hist)
IsPutBack(i) == i \in Calls /\ hist[i].op = "put_back"
IsDequeue(i) == i \in Calls /\ hist[i].op = "dequeue"
IsPositiveDequeue(i) == IsDequeue(i) /\ hist[i].timeout > 0
\* A call of dequeue_message to which blpop gave a frame.
IsPull(i) == IsDequeue(i) /\ hist[i].live /\ hist[i].frame # NoFrame
\* What the frame of such a call was built from.
ParamOf(i) == hist[i].param
\* The client's account id before call i.
AccountBefore(i) == IF i = 1 THEN NoAccount ELSE hist[i - 1].account_id

\* C1 as stated: after put_back(m1); put_back(m2) the next two calls of
\* dequeue_message return m2 then m1, whatever their timeouts, and neither
\* reaches the capture channel.
C1_AnyTimeout ==
  \A i \in Calls :
    (IsPutBack(i) /\ IsPutBack(i + 1)) =>
      /\ IsDequeue(i + 2) =>
           /\ hist[i + 2].out = Returned(hist[i + 1].arg)
           /\ ~hist[i + 2].live
      /\ (IsDequeue(i + 2) /\ IsDequeue(i + 3)) =>
           /\ hist[i + 3].out = Returned(hist[i].arg)
           /\ ~hist[i + 3].live

\* C1, amended: n consecutive put_back calls followed by k <= n calls of
\* dequeue_message with a positive timeout: the k-th of them returns the
\* k-th last message put back, unchanged, and does not reach the capture
\* channel.
C1_LifoReplay ==
  \A i \in Calls : \A j \in i..Len(hist) : \A k \in 1..(j - i + 1) :
    ( /\ \A n \in i..j : IsPutBack(n)
      /\ \A n \in (j + 1)..(j + k) : IsPositiveDequeue(n) )
    => /\ hist[j + k].out = Returned(hist[j - k + 1].arg)
       /\ ~hist[j + k].live

\* C1 witness: two different messages put back and both replayed.
C1_Witness ==
  /\ Len(hist) = 4
  /\ IsPutBack(1) /\ IsPutBack(2) /\ hist[1].arg # hist[2].arg
  /\ IsPositiveDequeue(3) /\ IsPositiveDequeue(4)
  /\ hist[3].out = Returned(hist[2].arg)
  /\ hist[4].out = Returned(hist[1].arg)
  /\ put_back_messages = <<>>

\* C2: a call of dequeue_message with timeout <= 0 returns None and does
\* not reach the capture channel, whatever the put-back stack holds.
C2_NonPositiveTimeoutReturnsNone ==
  \A i \in Calls :
    (IsDequeue(i) /\ hist[i].timeout <= 0) =>
      (hist[i].out = ReturnedNone /\ ~hist[i].live)

\* C2 witness: such a call made right after a put_back, with timeout 0.
C2_Witness ==
  \E i \in Calls :
    /\ IsPutBack(i) /\ IsDequeue(i + 1) /\ hist[i + 1].timeout = 0
    /\ hist[i + 1].out = ReturnedNone
    /\ put_back_messages # <<>>

\* C3 as stated: the call of dequeue_message that follows put_back(m)
\* returns m whatever its timeout, without reaching the capture channel.
C3_RegardlessOfTimeout ==
  \A i \in Calls :
    (IsPutBack(i) /\ IsDequeue(i + 1)) =>
      (hist[i + 1].out = Returned(hist[i].arg) /\ ~hist[i + 1].live)

\* C3, amended: after put_back(m), calls of dequeue_message with timeout
\* <= 0 return None and the first call with a positive timeout returns m,
\* none of them reaching the capture channel.
C3_NextPositiveDequeue ==
  \A i \in Calls : \A j \in (i + 1)..Len(hist) :
    ( /\ IsPutBack(i)
      /\ \A n \in (i + 1)..(j - 1) : IsDequeue(n) /\ hist[n].timeout <= 0
      /\ IsPositiveDequeue(j) )
    => /\ hist[j].out = Returned(hist[i].arg)
       /\ ~hist[j].live
       /\ \A n \in (i + 1)..(j - 1) :
            hist[n].out = ReturnedNone /\ ~hist[n].live

\* C3 witness: put_back onto a stack that holds another message already,
\* a call with timeout <= 0, then a call with a positive timeout.
C3_Witness ==
  /\ Len(hist) = 4
  /\ IsPutBack(1) /\ IsPutBack(2) /\ hist[1].arg # hist[2].arg
  /\ IsDequeue(3) /\ hist[3].timeout <= 0
  /\ IsPositiveDequeue(4) /\ hist[4].out = Returned(hist[2].arg)

\* C4: a pulled frame whose request tag is not 1 or 2 makes the call raise
\* the unknown-request-type error; otherwise response bytes whose tag is
\* not 3 make it raise the unknown-response-type error, and response bytes
\* with tag 3 that wrap a non-empty name the unknown-response-name error.
\* No Message is returned in any of these cases.
C4_BadTagsRaise ==
  \A i \in Calls :
    IsPull(i) =>
      LET p == ParamOf(i) IN
      /\ p.tag \notin {1, 2} =>
           hist[i].out = Raised("unknown request type")
      /\ (p.tag \in {1, 2} /\ p.rtag \notin {0, 3}) =>
           hist[i].out = Raised("unknown response type")
      /\ (p.tag \in {1, 2} /\ p.rtag = 3 /\ p.rname # "") =>
           hist[i].out = Raised("unknown response name")

\* C4 witness: each of the three faults has been pulled.
C4_Witness ==
  /\ \E i \in Calls : IsPull(i) /\ ParamOf(i).tag = 4
                      /\ hist[i].out.kind = "error"
  /\ \E i \in Calls : IsPull(i) /\ ParamOf(i).tag = 2 /\ ParamOf(i).rtag = 4
                      /\ hist[i].out.kind = "error"
  /\ \E i \in Calls : IsPull(i) /\ ParamOf(i).rtag = 3
                      /\ ParamOf(i).rname # ""
                      /\ hist[i].out.kind = "error"

\* A frame built to carry an account id: a tag-2 request of an
\* identity-bearing method with a tag-3 response that wraps the empty
\* name; the id is the last byte of the response payload.
IdentityBearing(p) ==
  /\ p.name \in DOMAIN ACCOUNT_ID_MESSAGES
  /\ p.tag = 2 /\ p.rtag = 3 /\ p.rname = ""
CarriedId(p) == p.rdata[Len(p.rdata)]
IsIdentityPull(i) == IsPull(i) /\ IdentityBearing(ParamOf(i))

\* C5 as stated: of two identity-bearing messages pulled one after the
\* other by a client without identity, both calls succeed when the ids
\* are equal, and account_id is that id after each; when the ids differ
\* the second call raises the identity conflict and account_id is still
\* the first id.
C5_TwoIdentityMessages ==
  \A i \in Calls : \A j \in (i + 1)..Len(hist) :
    ( /\ IsIdentityPull(i) /\ IsIdentityPull(j)
      /\ AccountBefore(i) = NoAccount
      /\ \A n \in (i + 1)..(j - 1) : ~IsIdentityPull(n) )
    => LET a == CarriedId(ParamOf(i))
           b == CarriedId(ParamOf(j))
       IN
       /\ hist[i].out.kind = "message" /\ hist[i].account_id = a
       /\ a = b => (hist[j].out.kind = "message" /\ hist[j].account_id = a)
       /\ a # b => ( /\ hist[j].out = Raised("Inconsistent account IDs")
                     /\ hist[j].account_id = a )

\* C6: account_id starts as none; a step changes it only from none to a
\* number, and only in a call of dequeue_message that pulled a frame and
\* returned its Message.  Once set it keeps its value.
C6_AccountIdSetAtMostOnce ==
  [][ /\ account_id # NoAccount => account_id' = account_id
      /\ account_id' # account_id =>
           /\ account_id = NoAccount
           /\ account_id' \in Nat
           /\ Len(hist') = Len(hist) + 1
           /\ hist'[Len(hist')].op = "dequeue"
           /\ hist'[Len(hist')].live
           /\ hist'[Len(hist')].frame # NoFrame
           /\ hist'[Len(hist')].out.kind = "message" ]_vars

\* C6 witness: with the identity set to 1, put_back and replay of a
\* message that carries id 2, a pull of a frame that carries id 2 (a
\* failed decode) and a timeout have all happened, the identity still 1.
C6_Witness ==
  /\ account_id = 1
  /\ \E i \in Calls :
       /\ IsDequeue(i) /\ ~hist[i].live /\ AccountBefore(i) = 1
       /\ hist[i].out.kind = "message"
       /\ hist[i].out.msg.response = Present([account_id |-> 2])
  /\ \E i \in Calls :
       /\ IsIdentityPull(i) /\ AccountBefore(i) = 1
       /\ CarriedId(ParamOf(i)) = 2 /\ hist[i].out.kind = "error"

\* C7 as stated: a Message returned for a pulled frame has a response iff
\* the request had tag 2 and came with tag-3 response bytes.
C7_ResponseIffTagTwo ==
  \A i \in Calls :
    (IsPull(i) /\ hist[i].out.kind = "message") =>
      (hist[i].out.msg.response.present
         <=> (ParamOf(i).tag = 2 /\ ParamOf(i).rtag = 3))

\* ------------------------------------------------ Home construction
Terminated == pc \in {"live", "failed"}
LoginBeat == ".lq.Lobby.loginBeat"
DailyTask == ".lq.Lobby.fetchDailyTask"
\* The calls that pulled a login heartbeat.
BeatPulls == { i \in Calls : IsPull(i) /\ ParamOf(i).name = LoginBeat }
\* The later of them.
SecondBeat == CHOOSE b \in BeatPulls : \A c \in BeatPulls : c <= b
\* Every pulled frame was decoded into a Message.
AllDecoded == \A i \in Calls : IsPull(i) => hist[i].out.kind = "message"
TimedOut == pc = "failed" /\ error = "Timeout"
\* Every name some case of either match statement names.
Recognized == Phase1Skip \cup Phase2Skip \cup {DailyTask, LoginBeat}

\* C8 as stated: construction with confirmed markers, fed exactly two
\* login heartbeats and otherwise messages that some catalog recognizes,
\* in any positions, all decoded and without the deadline lapsing, ends
\* live.
C8_AnyInterleaving ==
  ( /\ Terminated /\ match_markers(sct)
    /\ Cardinality(BeatPulls) = 2
    /\ \A i \in Calls : IsPull(i) => ParamOf(i).name \in Recognized
    /\ AllDecoded /\ ~TimedOut )
  => pc = "live"

\* C8, amended: construction with confirmed markers ends live, with two
\* login heartbeats counted, when the stream holds exactly two login
\* heartbeats, every message before the second one is of the phase-1
\* catalog and every message after it of the phase-2 catalog, every frame
\* decodes, the deadline does not lapse in phase 1 and no peek after a
\* fetchDailyTask of phase 1 finds the channel silent.
C8_TwoBeatsSettle ==
  ( /\ Terminated /\ match_markers(sct)
    /\ Cardinality(BeatPulls) = 2
    /\ \A i \in Calls :
         IsPull(i) =>
           /\ i < SecondBeat =>
                ParamOf(i).name \in Phase1Skip \cup {DailyTask, LoginBeat}
           /\ i > SecondBeat =>
                ParamOf(i).name \in Phase2Skip \cup {DailyTask}
    /\ AllDecoded /\ ~TimedOut /\ ~break_ )
  => (pc = "live" /\ num_login_beats = 2)

\* C8 witness: live after a stream of two login heartbeats and a message
\* that phase 2 skipped.
C8_Witness ==
  /\ pc = "live" /\ num_login_beats = 2 /\ Cardinality(BeatPulls) = 2
  /\ dispatched # <<>> /\ dispatched[Len(dispatched)].phase = 2

C10_UnrecognizedFailsAtOnce ==
  \A k \in DOMAIN dispatched :
    dispatched[k].name \notin Recognized =>
      /\ k = Len(dispatched)
      /\ pc = "failed" /\ error = "InconsistentMessage"
      /\ IsDequeue(Len(hist))
      /\ hist[Len(hist)].out.kind = "message"
      /\ hist[Len(hist)].out.msg.name = dispatched[k].name

\* C10 witness: phase 2 entered its match statement with joinRoom.
C10_Witness ==
  /\ dispatched # <<>>
  /\ dispatched[Len(dispatched)].phase = 2
  /\ dispatched[Len(dispatched)].name = ".lq.Lobby.joinRoom"
  /\ pc = "failed"

\* -------------------------------------------- deadline and lookahead
Running == pc \in {"phase1", "lookahead1", "phase2", "lookahead2"}

\* C11 as stated: a call of dequeue_message that construction makes and
\* that reaches the capture channel waits no longer than until the
\* deadline; when such a wait ends with nothing received at or after the
\* deadline, construction fails with Timeout; and construction is not
\* running any more once the deadline has lapsed.
C11_BoundedByDeadline ==
  [][ (Running /\ Len(hist') > Len(hist)) =>
        LET c == hist'[Len(hist) + 1] IN
        /\ c.live => now + c.timeout <= deadline
        /\ (c.live /\ c.out = ReturnedNone /\ now' >= deadline) =>
             (pc' = "failed" /\ error' = "Timeout")
        /\ pc' \in {"phase1", "lookahead1", "phase2", "lookahead2"} =>
             now' <= deadline ]_vars

\* The calls of Template.match in the log, in order.
MatchOps == SelectSeq(ops, LAMBDA o : o.op = "match")
AllMarkers(screenshot) == {1, 2, 3} \subseteq screenshot
\* The first marker the screenshot does not show, 3 if it shows all.
LastTested(screenshot) ==
  IF AllMarkers(screenshot) THEN 3
  ELSE CHOOSE i \in 1..3 :
         i \notin screenshot /\ \A k \in 1..(i - 1) : k \in screenshot
NotDetected == pc = "failed" /\ error = "PresentationNotDetected"

\* C14: marker confirmation succeeds iff the screenshot shows all of the
\* markers 1..3; with markers 1 and 2 shown and 3 absent it fails; and the
\* templates are matched in the order 1, 2, 3 up to the first one that
\* fails and no further.
C14_MarkersConjunction ==
  pc # "start" =>
    /\ ~NotDetected <=> AllMarkers(sct)
    /\ sct = {1, 2} => NotDetected
    /\ MatchOps = [i \in 1..LastTested(sct) |->
                     Op("match", Marker(i), i \in sct, 0)]

\* C14 witness: the screenshot shows markers 1 and 2 only; all three
\* templates were matched and confirmation failed.
C14_Witness ==
  /\ sct = {1, 2} /\ NotDetected
  /\ Len(MatchOps) = 3 /\ ~MatchOps[3].ok

\* C15: when the screenshot the constructor takes does not show all of
\* the markers, construction has failed with PresentationNotDetected and
\* no call was made on the client, the put-back stack is empty, nothing
\* was dispatched, and the only call on the browser is that one
\* screenshot: no click, no second screenshot, no wait.
C15_NotDetectedFailsAtOnce ==
  (pc # "start" /\ ~AllMarkers(sct)) =>
    /\ NotDetected
    /\ hist = <<>> /\ put_back_messages = <<>> /\ dispatched = <<>>
    /\ account_id = NoAccount
    /\ SelectSeq(ops, LAMBDA o : o.op # "match")
         = << Op("get_screenshot", "", TRUE, 0) >>

\* C15 witness: construction failed on a screenshot without marker 2.
C15_Witness ==
  /\ NotDetected /\ sct = {1, 3}
  /\ ops[1].op = "get_screenshot"

\* The call on the client the step makes first, if it makes one.
NewCall == hist'[Len(hist) + 1]
MakesCall == Len(hist') > Len(hist)
Dispatches == Len(dispatched') = Len(dispatched) + 1
NewDispatch == dispatched'[Len(dispatched')]

\* C16 as stated: once a peek of phase 1 has found the channel silent, no
\* frame is pulled any more, no message is dispatched any more and
\* construction does not fail.
C16_QuietPeekStops ==
  [][ break_ =>
        /\ MakesCall => (NewCall.frame = NoFrame)
        /\ dispatched' = dispatched
        /\ pc' # "failed" ]_vars

\* C16, amended: a peek of phase 1 that finds the channel silent ends
\* phase 1 without a failure and without a dispatch, and construction goes
\* on with phase 2: from then on every message is dispatched by the second
\* match statement, which skips a heartbeat and updateClientValue and
\* fails on joinRoom, and construction becomes live when a call of phase 2
\* finds nothing.
C16_QuietPeekEntersPhase2 ==
  [][ /\ (pc = "lookahead1" /\ MakesCall /\ NewCall.out = ReturnedNone) =>
           /\ break_' /\ pc' = "phase2"
           /\ error' = error /\ dispatched' = dispatched
           /\ num_login_beats' = num_login_beats
      /\ break_ =>
           /\ break_'
           /\ pc # "phase1" /\ pc # "lookahead1"
           /\ Dispatches =>
                /\ NewDispatch.phase = 2
                /\ NewDispatch.name \in {".lq.Lobby.heatbeat",
                                         ".lq.Lobby.updateClientValue"}
                     => pc' = "phase2"
                /\ NewDispatch.name = ".lq.Lobby.joinRoom"
                     => (pc' = "failed" /\ error' = "InconsistentMessage")
           /\ (pc = "phase2" /\ MakesCall /\ NewCall.out = ReturnedNone)
                => pc' = "live" ]_vars

\* C16 witness: after a silent peek of phase 1, phase 2 dispatched a
\* message and construction became live without a second login heartbeat.
C16_Witness ==
  /\ break_ /\ pc = "live" /\ num_login_beats < 2
  /\ dispatched # <<>> /\ dispatched[Len(dispatched)].phase = 2

\* The calls whose message a match statement was entered with.
DispatchedCalls == { dispatched[k].call : k \in DOMAIN dispatched }
\* A call of a lookahead that returned a message.
IsPeeked(i) ==
  IsDequeue(i) /\ hist[i].out.kind = "message" /\ i \notin DispatchedCalls
\* The dispatch of the fetchDailyTask that a peek at call i follows.
PeekOrigin(i) ==
  CHOOSE k \in DOMAIN dispatched :
    /\ dispatched[k].call < i
    /\ \A n \in DOMAIN dispatched : dispatched[n].call < i => n <= k

RoomHost == "RoomHostPresentation"
\* The presentations that are live: Home once constructed and until it is
\* superseded, and the presentation create_room adopted.
LivePresentations ==
  (IF pc = "live" /\ ~stale THEN {"HomePresentation"} ELSE {})
  \cup (IF new_presentation # "none" THEN {new_presentation} ELSE {})

\* C12: the Home object is stale only after a call of create_room that
\* adopted the room screen, and a call of create_room on a stale Home
\* object raises the stale-usage error without any click, screenshot or
\* wait on the browser and without any call on the client.
C12_StaleCallRaisesFirst ==
  [][ /\ stale => new_presentation = RoomHost
      /\ (stale /\ room_calls' = room_calls + 1) =>
           /\ room_error' = "StaleUsage"
           /\ room_ops' = <<>> /\ ops' = ops
           /\ hist' = hist /\ put_back_messages' = put_back_messages
           /\ now' = now
           /\ stale' /\ new_presentation' = new_presentation ]_vars

\* C12 witness: create_room was called on the Home object after the call
\* that superseded it.
C12_Witness ==
  /\ stale /\ new_presentation = RoomHost
  /\ room_calls = 2 /\ room_error = "StaleUsage" /\ room_ops = <<>>

\* C13: after a call of create_room exactly one presentation is live.  A
\* call in which no step raised made all its steps, adopted the room
\* screen and left Home stale; a call in which a wait or the construction
\* of the room screen raised left Home live and adopted nothing.
C13_StaleOnlyOnSuccess ==
  room_calls > 0 =>
    /\ Cardinality(LivePresentations) = 1
    /\ stale <=> new_presentation = RoomHost
    /\ room_error = "" =>
         /\ stale /\ LivePresentations = {RoomHost}
         /\ Len(room_ops) = 7 /\ \A i \in DOMAIN room_ops : room_ops[i].ok
    /\ room_error \in {"Timeout", "PresentationNotDetected",
                       "InconsistentMessage"} =>
         /\ ~stale /\ LivePresentations = {"HomePresentation"}
         /\ room_ops # <<>> /\ ~room_ops[Len(room_ops)].ok

\* C13 witness: a call of create_room that failed, then one that adopted
\* the room screen.
C13_Witness ==
  /\ room_calls = 2 /\ room_error = "" /\ stale
  /\ LivePresentations = {RoomHost}

\* The clicks and the waits of the last call of create_room.
IsClick(i) == i \in DOMAIN room_ops /\ room_ops[i].op = "click"
IsWait(i) == i \in DOMAIN room_ops /\ room_ops[i].op = "wait_until"
ClickTargets ==
  LET clicks == SelectSeq(room_ops, LAMBDA o : o.op = "click") IN
  [i \in DOMAIN clicks |-> clicks[i].target]
ClickOrder ==
  << "template/home/marker3", "template/home/create_room",
     "template/home/room_creation/create" >>
\* The call just before click i was a wait for the same template, given a
\* deadline, that succeeded.
WaitedFor(i) ==
  /\ IsWait(i - 1)
  /\ room_ops[i - 1].target = room_ops[i].target
  /\ room_ops[i - 1].ok /\ room_ops[i - 1].dl > 0

\* C18 as stated: the clicks are made in the order friendly match, create
\* room, create; every click follows a successful wait for its own
\* template; and nothing is called after a wait that timed out.
C18_EveryClickWaitedFor ==
  /\ ClickTargets = SubSeq(ClickOrder, 1, Len(ClickTargets))
  /\ \A i \in DOMAIN room_ops : IsClick(i) => WaitedFor(i)
  /\ \A i \in DOMAIN room_ops : ~room_ops[i].ok => i = Len(room_ops)

\* C18, amended: the clicks are made in the order friendly match, create
\* room, create; the click on friendly match is the first call made and
\* follows no wait; each of the other two clicks follows a successful wait
\* for its own template, all waits being given the one deadline; and
\* nothing is called after a wait that timed out.
C18_LaterClicksWaitedFor ==
  /\ ClickTargets = SubSeq(ClickOrder, 1, Len(ClickTargets))
  /\ room_ops # <<>> => (IsClick(1) /\ room_ops[1].target = ClickOrder[1])
  /\ \A i \in DOMAIN room_ops : (IsClick(i) /\ i > 1) => WaitedFor(i)
  /\ \A i, j \in DOMAIN room_ops :
       (IsWait(i) /\ IsWait(j)) => room_ops[i].dl = room_ops[j].dl
  /\ \A i \in DOMAIN room_ops : ~room_ops[i].ok => i = Len(room_ops)

\* C18 witness: the wait for the create button timed out after the clicks
\* on friendly match and on create room; the third click was not made.
C18_Witness ==
  /\ room_error = "Timeout" /\ Len(room_ops) = 4
  /\ ClickTargets = SubSeq(ClickOrder, 1, 2)
  /\ IsWait(4) /\ ~room_ops[4].ok

\* ------------------------------------------- identity catalog, offsets
\* C19 as stated: a pulled frame of an identity-bearing method whose
\* response carries an account id, decoded by a client without identity,
\* is returned as a Message and leaves account_id at that id.
C19_EveryIdentityMethodSeeds ==
  \A i \in Calls :
    (IsIdentityPull(i) /\ AccountBefore(i) = NoAccount) =>
      /\ hist[i].out.kind = "message"
      /\ hist[i].account_id = CarriedId(ParamOf(i))

\* The envelope found in the bytes from the given offset on.
EnvelopeAt(bytes, offset) == unwrap_message(DropFirst(bytes, offset))
\* A call that pulled a frame and returned its Message.
IsDecoded(i) == IsPull(i) /\ hist[i].out.kind = "message"
HasResponse(i) == IsPull(i) /\ hist[i].frame.response.present

\* C20 as stated: the name of a returned Message is the name of the
\* envelope at byte 1 of a tag-1 request and at byte 3 of a tag-2 request,
\* and its response is decoded from the envelope at byte 1 of the response
\* bytes, which parses.
C20_ResponseFromByteOne ==
  \A i \in Calls :
    IsDecoded(i) =>
      LET f == hist[i].frame
          m == hist[i].out.msg
      IN
      /\ f.request[1] = 1 => m.name = EnvelopeAt(f.request, 1).name
      /\ f.request[1] = 2 => m.name = EnvelopeAt(f.request, 3).name
      /\ HasResponse(i) =>
           /\ EnvelopeAt(f.response.bytes, 1).ok
           /\ m.response.value
                = jsonize(m.name, EnvelopeAt(f.response.bytes, 1).data,
                          TRUE).value

\* C20, amended: the name of a returned Message is the name of the
\* envelope at byte 1 of a tag-1 request and at byte 3 of a tag-2 request,
\* and its response is decoded from the envelope at byte 3 of the response
\* bytes; a frame whose envelopes at these offsets parse does not fail
\* with a decode error.
C20_ResponseFromByteThree ==
  \A i \in Calls :
    IsPull(i) =>
      LET f == hist[i].frame
          m == hist[i].out.msg
      IN
      /\ IsDecoded(i) =>
           /\ f.request[1] = 1 => m.name = EnvelopeAt(f.request, 1).name
           /\ f.request[1] = 2 => m.name = EnvelopeAt(f.request, 3).name
           /\ HasResponse(i) =>
                /\ EnvelopeAt(f.response.bytes, 3).ok
                /\ m.response.value
                     = jsonize(m.name, EnvelopeAt(f.response.bytes, 3).data,
                               TRUE).value
      /\ ( /\ f.request[1] \in {1, 2}
           /\ EnvelopeAt(f.request, IF f.request[1] = 1 THEN 1 ELSE 3).ok
           /\ HasResponse(i) => EnvelopeAt(f.response.bytes, 3).ok )
         => hist[i].out # Raised("DecodeError")

\* C20 witness: a tag-1 request and a tag-2 request have each been
\* returned with the account id of their tag-3 response.
C20_Witness ==
  /\ \E i \in Calls :
       /\ IsDecoded(i) /\ ParamOf(i).tag = 1 /\ HasResponse(i)
       /\ hist[i].out.msg.name = ".lq.Lobby.oauth2Login"
       /\ hist[i].out.msg.response.value = [account_id |-> 1]
  /\ \E i \in Calls :
       /\ IsDecoded(i) /\ ParamOf(i).tag = 2 /\ HasResponse(i)
       /\ hist[i].out.msg.response.value = [account_id |-> 1]

\* ------------------------------------------------ _close_notifications
\* The calls the step adds to the log.
NewOps == SubSeq(ops', Len(ops) + 1, Len(ops'))
OpsOf(log, op) == SelectSeq(log, LAMBDA o : o.op = op)
Targets(log) == [i \in DOMAIN log |-> log[i].target]

\* C21: every iteration of the loop takes one screenshot, before anything
\* else.  An iteration that finds the deadline lapsed raises Timeout and
\* does nothing more.  Any other iteration began with the deadline not
\* lapsed; it tests notification_close, and event_close only when the
\* score of notification_close is below its threshold 2; it clicks
\* notification_close when that score is at least 2, otherwise event_close
\* when its score is at least its own threshold 3, otherwise nothing: at
\* most one click.  After a click it sleeps and the loop goes on; the
\* function returns exactly from an iteration without a click.
C21_OneClickPerScreenshot ==
  [][ close_pc = "loop" =>
        LET clicks == OpsOf(NewOps, "click_region")
            tests == OpsOf(NewOps, "best_template_match")
            notification_met == close_sct'[NotificationClose] >= 2
            event_met == close_sct'[EventClose] >= 3
        IN
        /\ Len(OpsOf(NewOps, "get_screenshot")) = 1
        /\ NewOps[1].op = "get_screenshot"
        /\ Len(clicks) <= 1
        /\ close_pc' \in {"loop", "returned", "raised"}
        /\ close_pc' = "raised" =>
             /\ error' = "Timeout" /\ now' > close_deadline
             /\ Len(NewOps) = 1
        /\ close_pc' # "raised" =>
             /\ now' - (IF clicks = <<>> THEN 0 ELSE 10) <= close_deadline
             /\ error' = error
             /\ Targets(tests) = IF notification_met
                                 THEN << NotificationClose >>
                                 ELSE << NotificationClose, EventClose >>
             /\ Targets(clicks) = IF notification_met
                                  THEN << NotificationClose >>
                                  ELSE IF event_met THEN << EventClose >>
                                  ELSE <<>>
             /\ clicks # <<>> =>
                  /\ NewOps[Len(NewOps)].op = "sleep"
                  /\ NewOps[Len(NewOps) - 1].op = "click_region"
                  /\ now' >= now + 10
             /\ close_pc' = "loop" <=> clicks # <<>>
             /\ close_pc' = "returned" <=> (~notification_met /\ ~event_met)
    ]_vars

\* C21 witness: the function returned from a screenshot on which
\* event_close scored 2, enough for notification_close but below its own
\* threshold, after iterations that clicked each of the two targets.
C21_Witness ==
  /\ close_pc = "returned"
  /\ close_sct = [t \in {NotificationClose, EventClose} |->
                    IF t = NotificationClose THEN 1 ELSE 2]
  /\ Targets(OpsOf(ops, "click_region")) = << NotificationClose, EventClose >>

====
